---- MODULE Spec2Model ----
(***************************************************************************)
(* Model of runConcurrent (src/src/runConcurrent.ts): a bounded pool of    *)
(* async workers draining one shared queue of indexed tasks.               *)
(*                                                                         *)
(* JavaScript scheduling as modelled here:                                 *)
(*  - the body of an async function runs synchronously up to its first     *)
(*    await, so launching a worker claims and invokes its first task in    *)
(*    one step, and the launches of all workers happen before any await    *)
(*    continuation runs;                                                   *)
(*  - a task is the Task<T> of the source, () => Promise<T>: invoking it   *)
(*    returns a promise that settles later (possibly before the launch of  *)
(*    the next worker); the continuation of the worker awaiting it is a    *)
(*    job on the FIFO microtask queue, queued when the promise settles;    *)
(*    a callable that throws before returning a promise is not a Task<T>   *)
(*    and is not among the inputs;                                         *)
(*  - one continuation (record the result, test the loop condition, claim  *)
(*    and invoke the next task) runs without suspension: one action.       *)
(* JavaScript arrays are 0-based: tasks and results are functions on       *)
(* 0..n-1; queue and errorIndexes, only shifted/pushed, are sequences.     *)
(* Strings that the program builds are sequences of tokens, so that        *)
(* concatenation is \o and the empty string is << >>.                      *)
(***************************************************************************)
EXTENDS Integers, Sequences, FiniteSets, TLC

\* ---------------------------------------------------------------- bounds
MaxTasks == 4
MaxConcurrency == 3
MaxNegative == 1
WideTasks == 11
WideFailures == 2
WideConcurrency == 1
MaxThrownTasks == 2
MaxThrownConcurrency == 2
DefaultsTasks == 6
DefaultsFailures == 1

\* ---------------------------------------------------------------- defaults
\* const { concurrency = 5, stopOnError = true } = options
DefaultConcurrency == 5
DefaultStopOnError == TRUE

\* ---------------------------------------------------------------- values
Undefined == [type |-> "undefined"]
Empty == [type |-> "empty"]

\* the value task i resolves with, and the Error it throws when it fails
ValueOf(i) == [type |-> "value", of |-> i]
ThrownBy(i) == [type |-> "Error", message |-> <<"failure of task", i>>]

TaskOk(i) == [kind |-> "ok", value |-> ValueOf(i)]
TaskFail(i) == [kind |-> "fail", value |-> ThrownBy(i)]

\* every input array of n tasks: each task either resolves or rejects
TaskArrays(n) == { [i \in 0..(n-1) |-> IF i \in F THEN TaskFail(i) ELSE TaskOk(i)] :
                     F \in SUBSET (0..(n-1)) }

\* what a task may throw: an Error, a string, the empty string, null, undefined
ThrownValues ==
  { [type |-> "Error", message |-> <<"Failure">>],
    [type |-> "string", value |-> <<"boom">>],
    [type |-> "string", value |-> <<>>],
    [type |-> "null"],
    [type |-> "undefined"] }

\* input arrays of n tasks whose failing tasks throw any of ThrownValues
ThrownTaskArrays(n) ==
  LET Choices(i) == {TaskOk(i)} \cup { [kind |-> "fail", value |-> v] : v \in ThrownValues }
  IN { ts \in [0..(n-1) -> UNION { Choices(i) : i \in 0..(n-1) }] :
         \A i \in 0..(n-1) : ts[i] \in Choices(i) }

Failing(ts) == { i \in DOMAIN ts : ts[i].kind = "fail" }

\* ---------------------------------------------------------------- state
VARIABLES
  tasks,          \* the caller's array of tasks
  options,        \* the caller's options argument (Undefined when omitted)
  concurrency,    \* options.concurrency
  stopOnError,    \* options.stopOnError
  results,        \* const results = new Array(tasks.length)
  errorIndexes,   \* const errorIndexes: number[] = []
  errorOccurred,  \* let errorOccurred = false
  queue,          \* const queue = tasks.map((task, index) => ({task, index}))
  workers,        \* per worker() call: its promise, its item, the awaited task promise
  launched,       \* how many worker() calls Array.from has made
  pc,             \* position of runConcurrent's own body
  jobs,           \* microtask queue: await continuations ready to run
  all,            \* the promise returned by Promise.all
  outcome,        \* the promise returned by runConcurrent
  started,        \* history: <<worker, index>> of every task() call, in order
  settleOrder     \* history: indices in the order their task promises settled

vars == <<tasks, options, concurrency, stopOnError, results, errorIndexes, errorOccurred,
          queue, workers, launched, pc, jobs, all, outcome,
          started, settleOrder>>

inputs == <<tasks, options, concurrency, stopOnError>>

N == Cardinality(DOMAIN tasks)

\* ---------------------------------------------------------------- helpers
Max(a, b) == IF a >= b THEN a ELSE b

\* mutation: the pool is one worker too large
NumWorkersOffByOne(c) == Max(0, c) + 1

\* mutation: the pool is one worker short
NumWorkersOneShort(c) == Max(0, c - 1)

\* Array.from({ length: concurrency }, ...): ToLength clamps a negative length to 0
NumWorkers(c) == Max(0, c)

\* tasks.map((task, index) => ({ task, index }))
RECURSIVE MapQueue(_, _)
MapQueue(ts, i) ==
  IF i >= Cardinality(DOMAIN ts) THEN <<>>
  ELSE <<[task |-> ts[i], index |-> i]>> \o MapQueue(ts, i + 1)

\* mutation: the queue is the caller's array itself (queue = tasks), so that
\* queue.shift() also removes the first task of the caller's array
TasksSharedWithQueue(ts) ==
  [i \in 0..(Cardinality(DOMAIN ts) - 2) |-> ts[i + 1]]

\* queue.shift() acts on the array tasks.map returned, a separate array: the
\* caller's tasks array is the same after the shift
TasksAfterShift(ts) == ts

\* mutation: the loop tests only the queue, not the error flag
LoopCondIgnoresFlag(q, stop, flag) == Len(q) > 0

\* mutation: the loop stops one item early (queue.length > 1)
LoopCondStopsEarly(q, stop, flag) == Len(q) > 1 /\ (~stop \/ ~flag)

\* mutation: the loop also runs on an empty queue (queue.length >= 0)
LoopCondAllowsEmpty(q, stop, flag) == Len(q) >= 0 /\ (~stop \/ ~flag)

\* queue.length > 0 && (!stopOnError || !errorOccurred)
LoopCond(q, stop, flag) == Len(q) > 0 /\ (~stop \/ ~flag)

\* mutation: the item is taken from the end of the queue (queue[queue.length - 1])
ShiftItemLast(q) == IF Len(q) = 0 THEN Undefined ELSE q[Len(q)]

\* queue.shift(): the removed element (undefined on an empty array) ...
ShiftItem(q) == IF Len(q) = 0 THEN Undefined ELSE Head(q)
\* mutation: the item is read but not removed (queue[0] instead of shift)
ShiftRestKeepsHead(q) == q

\* ... and the array it leaves behind
ShiftRest(q) == IF Len(q) = 0 THEN q ELSE Tail(q)

\* mutation: a failure is rethrown in either mode
RethrowsAlways(stop) == TRUE

\* if (stopOnError) in the catch block: the failure is rethrown
Rethrows(stop) == stop

\* error instanceof Error ? error : new Error(String(error ?? "Unknown error"));
\* ?? replaces only null and undefined, String of a string is the string
Normalize(error) ==
  IF error.type = "Error" THEN error
  ELSE IF error.type \in {"null", "undefined"}
       THEN [type |-> "Error", message |-> <<"Unknown error">>]
       ELSE [type |-> "Error", message |-> error.value]

\* String(e) for an Error e (Error.prototype.toString): its name alone when
\* the message is empty, otherwise name, ": " and message
ErrorString(err) ==
  IF err.message = <<>> THEN <<"Error">> ELSE <<"Error", ": ">> \o err.message

\* mutation: the error carries a 1-based position
ConcurrencyErrorOneBased(err, index) ==
  [type |-> "ConcurrencyError", message |-> ErrorString(err), index |-> index + 1,
   originalStack |-> Undefined]

\* new ConcurrencyError(normalizedError, index) with the constructor
\* (message, index, originalStack?): super(message) converts its argument,
\* here an Error, to a string; index is kept as given; no third argument
ConcurrencyError(err, index) ==
  [type |-> "ConcurrencyError", message |-> ErrorString(err), index |-> index,
   originalStack |-> Undefined]

IsConcurrencyError(v) == v.type = "ConcurrencyError"

\* mutation: results are appended in completion order (results.push(v))
StoreAtFirstFree(res, index, v) ==
  LET free == { i \in DOMAIN res : res[i] = Empty }
      slot == CHOOSE i \in free : \A j \in free : i <= j
  IN [res EXCEPT ![slot] = v]

\* results[index] = v
StoreResult(res, index, v) == [res EXCEPT ![index] = v]

\* errorIndexes.push(index)
Push(s, index) == Append(s, index)

\* String(i) for an index i >= 0: its decimal digits
RECURSIVE DecimalString(_)
DecimalString(i) == IF i < 10 THEN <<i>> ELSE DecimalString(i \div 10) \o <<i % 10>>

\* a < b as strings, compared code unit by code unit
RECURSIVE StringLess(_, _)
StringLess(a, b) ==
  IF Len(b) = 0 THEN FALSE
  ELSE IF Len(a) = 0 THEN TRUE
  ELSE IF Head(a) # Head(b) THEN Head(a) < Head(b)
  ELSE StringLess(Tail(a), Tail(b))

\* the comparison Array.prototype.sort uses when given no comparator
DefaultLess(x, y) == StringLess(DecimalString(x), DecimalString(y))

\* stable insertion of x into the sorted sequence s
RECURSIVE InsertSorted(_, _)
InsertSorted(s, x) ==
  IF Len(s) = 0 THEN <<x>>
  ELSE IF DefaultLess(x, Head(s)) THEN <<x>> \o s
  ELSE <<Head(s)>> \o InsertSorted(Tail(s), x)

\* errorIndexes.sort()
RECURSIVE Sort(_)
Sort(s) == IF Len(s) = 0 THEN <<>> ELSE InsertSorted(Sort(SubSeq(s, 1, Len(s) - 1)), s[Len(s)])

\* mutation: the join reports the rejection of the last worker that failed
\* (as a scan of Promise.allSettled from the end would)
PromiseAllLastWorker(cur, ws) ==
  LET failed == { w \in DOMAIN ws : ws[w].status = "rejected" } IN
  IF failed # {}
  THEN [state |-> "rejected",
        reason |-> ws[CHOOSE w \in failed : \A v \in failed : v <= w].reason]
  ELSE IF \A w \in DOMAIN ws : ws[w].status = "fulfilled"
       THEN [state |-> "fulfilled"]
  ELSE cur

\* mutation: the join settles as soon as one worker has finished (Promise.race)
PromiseRace(cur, ws) ==
  IF cur.state # "pending" THEN cur
  ELSE IF \E w \in DOMAIN ws : ws[w].status = "rejected"
       THEN [state |-> "rejected",
             reason |-> ws[CHOOSE w \in DOMAIN ws : ws[w].status = "rejected"].reason]
  ELSE IF \E w \in DOMAIN ws : ws[w].status = "fulfilled"
       THEN [state |-> "fulfilled"]
  ELSE cur

\* the state of Promise.all(ws): rejected with the first rejection, fulfilled
\* once every element is
PromiseAll(cur, ws) ==
  IF cur.state # "pending" THEN cur
  ELSE IF \E w \in DOMAIN ws : ws[w].status = "rejected"
       THEN [state |-> "rejected",
             reason |-> ws[CHOOSE w \in DOMAIN ws : ws[w].status = "rejected"].reason]
  ELSE IF \A w \in DOMAIN ws : ws[w].status = "fulfilled"
       THEN [state |-> "fulfilled"]
  ELSE cur

Unlaunched == [status |-> "unlaunched"]
Fulfilled == [status |-> "fulfilled"]
Rejected(reason) == [status |-> "rejected", reason |-> reason]
Awaiting(item, p) == [status |-> "awaiting", item |-> item, promise |-> p]

\* tasks invoked whose promise has not settled
InFlight == { w \in DOMAIN workers :
                workers[w].status = "awaiting" /\ workers[w].promise = "pending" }

\* ---------------------------------------------------------------- Init
NoOptions == [f \in {} |-> TRUE]

\* options: RunConcurrentOptions = {}: an omitted argument is the empty record
OptionsOrDefault(o) == IF o = Undefined THEN NoOptions ELSE o

\* mutation: the default pool size is 1
OptConcurrencyDefaultOne(o) ==
  IF "concurrency" \in DOMAIN o THEN o.concurrency ELSE 1

\* const { concurrency = 5 } = options
OptConcurrency(o) ==
  IF "concurrency" \in DOMAIN o THEN o.concurrency ELSE DefaultConcurrency

\* const { stopOnError = true } = options
OptStopOnError(o) ==
  IF "stopOnError" \in DOMAIN o THEN o.stopOnError ELSE DefaultStopOnError

\* the local state after lines 67-72, for the destructured option values
InitLocals(ts, c, stop) ==
  /\ tasks = ts
  /\ concurrency = c
  /\ stopOnError = stop
  /\ results = [i \in DOMAIN ts |-> Empty]
  /\ errorIndexes = <<>>
  /\ errorOccurred = FALSE
  /\ queue = MapQueue(ts, 0)
  /\ workers = [w \in 1..NumWorkers(c) |-> Unlaunched]
  /\ launched = 0
  /\ pc = "launch"
  /\ jobs = <<>>
  /\ all = [state |-> "pending"]
  /\ outcome = [state |-> "pending"]
  /\ started = <<>>
  /\ settleOrder = <<>>

\* a call runConcurrent(ts, o)
InitCall(ts, o) ==
  /\ options = o
  /\ InitLocals(ts, OptConcurrency(OptionsOrDefault(o)), OptStopOnError(OptionsOrDefault(o)))

\* a call with both options given
InitRun(ts, c, stop) == InitCall(ts, [concurrency |-> c, stopOnError |-> stop])

Init ==
  \E n \in 0..MaxTasks : \E ts \in TaskArrays(n) :
    \E c \in (0 - MaxNegative)..MaxConcurrency : \E stop \in BOOLEAN :
      InitRun(ts, c, stop)

\* runs of WideTasks tasks, so that indices of one and of two digits both
\* occur, with at most WideFailures failing tasks and a pool of WideConcurrency workers
TaskArraysUpTo(n, k) ==
  { [i \in 0..(n-1) |-> IF i \in F THEN TaskFail(i) ELSE TaskOk(i)] :
      F \in { G \in SUBSET (0..(n-1)) : Cardinality(G) <= k } }

WideTaskArrays(n) == TaskArraysUpTo(n, WideFailures)

InitWide ==
  \E ts \in WideTaskArrays(WideTasks) : \E stop \in BOOLEAN :
    InitRun(ts, WideConcurrency, stop)

\* runs of up to MaxThrownTasks tasks throwing values of every kind
InitThrown ==
  \E n \in 1..MaxThrownTasks : \E ts \in ThrownTaskArrays(n) :
    \E c \in 1..MaxThrownConcurrency : \E stop \in BOOLEAN :
      InitRun(ts, c, stop)

\* calls that leave out the options argument or one of its fields, with
\* DefaultsTasks tasks, so that more tasks than the default pool size exist,
\* of which at most DefaultsFailures fail
OmittedOptions ==
  {Undefined, NoOptions}
  \cup { [concurrency |-> c] : c \in 1..2 }
  \cup { [stopOnError |-> FALSE] }

InitDefaults ==
  \E ts \in TaskArraysUpTo(DefaultsTasks, DefaultsFailures) :
    \E o \in OmittedOptions : InitCall(ts, o)

\* ---------------------------------------------------------------- worker
\* the top of worker w's while loop: test the condition, then either claim
\* the next item and call its task (suspending at the await), or return
WorkerLoop(w) ==
  IF LoopCond(queue, stopOnError, errorOccurred)
  THEN LET item == ShiftItem(queue) IN
       /\ queue' = ShiftRest(queue)
       /\ tasks' = TasksAfterShift(tasks)
       /\ IF item = Undefined
          THEN /\ workers' = [workers EXCEPT ![w] = Fulfilled]
               /\ UNCHANGED started
          ELSE /\ workers' = [workers EXCEPT ![w] = Awaiting(item, "pending")]
               /\ started' = Append(started, <<w, item.index>>)
  ELSE /\ workers' = [workers EXCEPT ![w] = Fulfilled]
       /\ UNCHANGED <<tasks, queue, started>>

\* Array.from calls worker() once more; it runs up to its first await
Launch ==
  /\ pc = "launch"
  /\ launched < NumWorkers(concurrency)
  /\ launched' = launched + 1
  /\ WorkerLoop(launched + 1)
  /\ UNCHANGED <<options, concurrency, stopOnError, results, errorIndexes, errorOccurred, pc, jobs, all,
                 outcome, settleOrder>>

\* await Promise.all(...): runConcurrent suspends on the workers' promises
AwaitAll ==
  /\ pc = "launch"
  /\ launched = NumWorkers(concurrency)
  /\ pc' = "join"
  /\ all' = PromiseAll(all, workers)
  /\ UNCHANGED <<inputs, results, errorIndexes, errorOccurred, queue, workers,
                 launched, jobs, outcome, started, settleOrder>>

\* the promise worker w awaits settles; w's continuation is queued
TaskSettle(w) ==
  /\ w \in InFlight
  /\ workers' = [workers EXCEPT ![w].promise =
                   IF workers[w].item.task.kind = "ok" THEN "fulfilled" ELSE "rejected"]
  /\ jobs' = Append(jobs, w)
  /\ settleOrder' = Append(settleOrder, workers[w].item.index)
  /\ UNCHANGED <<inputs, results, errorIndexes, errorOccurred, queue, launched,
                 pc, all, outcome, started>>

\* the next queued continuation runs: lines 82-96 and the loop test
Resume ==
  /\ pc # "launch"
  /\ jobs # <<>>
  /\ LET w == Head(jobs)
         item == workers[w].item
         index == item.index
     IN
     /\ jobs' = Tail(jobs)
     /\ IF workers[w].promise = "fulfilled"
        THEN /\ results' = StoreResult(results, index, item.task.value)
             /\ WorkerLoop(w)
             /\ UNCHANGED <<errorIndexes, errorOccurred>>
        ELSE LET normalizedError == Normalize(item.task.value) IN
             IF Rethrows(stopOnError)
             THEN /\ errorOccurred' = TRUE
                  /\ workers' = [workers EXCEPT
                                   ![w] = Rejected(ConcurrencyError(normalizedError, index))]
                  /\ UNCHANGED <<tasks, results, errorIndexes, queue, started>>
             ELSE /\ results' = StoreResult(results, index,
                                            ConcurrencyError(normalizedError, index))
                  /\ errorIndexes' = Push(errorIndexes, index)
                  /\ WorkerLoop(w)
                  /\ UNCHANGED errorOccurred
     /\ all' = PromiseAll(all, workers')
  /\ UNCHANGED <<options, concurrency, stopOnError, launched, pc, outcome,
                 settleOrder>>

\* mutation: the bare results array is returned in either mode
ReturnValueAlwaysArray(stop, res, idx) == res

\* lines 102-106: the value runConcurrent returns
ReturnValue(stop, res, idx) ==
  IF stop THEN res ELSE [data |-> res, errorIndexes |-> Sort(idx)]

\* Promise.all has settled: runConcurrent rethrows or runs lines 102-106
Join ==
  /\ pc = "join"
  /\ all.state # "pending"
  /\ pc' = "done"
  /\ IF all.state = "rejected"
     THEN /\ outcome' = [state |-> "rejected", reason |-> all.reason]
          /\ UNCHANGED errorIndexes
     ELSE /\ outcome' = [state |-> "fulfilled",
                         value |-> ReturnValue(stopOnError, results, errorIndexes)]
          \* sort() sorts errorIndexes in place
          /\ errorIndexes' = IF stopOnError THEN errorIndexes ELSE Sort(errorIndexes)
  /\ UNCHANGED <<inputs, results, errorOccurred, queue, workers, launched, jobs,
                 all, started, settleOrder>>

Next ==
  \/ Launch
  \/ AwaitAll
  \/ \E w \in DOMAIN workers : TaskSettle(w)
  \/ Resume
  \/ Join

Spec == Init /\ [][Next]_vars

\* the event loop runs every step of the program that is ready (the launches,
\* the await, each queued continuation, the return), and every invoked task
\* eventually settles
Fairness ==
  /\ WF_vars(Launch)
  /\ WF_vars(AwaitAll)
  /\ WF_vars(Resume)
  /\ WF_vars(Join)
  /\ \A w \in 1..MaxConcurrency : WF_vars(TaskSettle(w))

SpecFair == Init /\ [][Next]_vars /\ Fairness

SpecWide == InitWide /\ [][Next]_vars

SpecThrown == InitThrown /\ [][Next]_vars

SpecDefaults == InitDefaults /\ [][Next]_vars

\* ---------------------------------------------------------------- histories
\* number of task() calls made so far whose promise has not settled
InFlightCount == Len(started) - Len(settleOrder)

StartedIndexes == { started[k][2] : k \in 1..Len(started) }
Invocations(i) == Cardinality({ k \in 1..Len(started) : started[k][2] = i })

\* the first task, in order of completion, whose promise rejected
FailedSettles == { k \in 1..Len(settleOrder) : settleOrder[k] \in Failing(tasks) }
FirstFailedSettled ==
  IF FailedSettles = {} THEN -1
  ELSE settleOrder[CHOOSE k \in FailedSettles : \A j \in FailedSettles : k <= j]

Range(s) == { s[k] : k \in 1..Len(s) }

Min(a, b) == IF a <= b THEN a ELSE b

\* the workers that claimed a work item and invoked its task
StartedWorkers == { started[k][1] : k \in 1..Len(started) }

\* the array part of a fulfilled outcome, in either mode
ReturnedArray == IF stopOnError THEN outcome.value ELSE outcome.value.data

\* ---------------------------------------------------------------- claims

\* C1: with concurrency >= 1, the number of tasks invoked and not yet settled
\* never exceeds concurrency, in both modes and under every interleaving.
C1_InFlightBound ==
  concurrency >= 1 =>
    /\ InFlightCount <= concurrency
    /\ InFlightCount = Cardinality(InFlight)

C1_Witness ==
  /\ concurrency >= 2
  /\ InFlightCount = concurrency
  /\ Len(settleOrder) > 0
  /\ Len(queue) > 0

\* C2: when every task succeeds (concurrency >= 1), the returned array has
\* length n and holds at i the value of task i, whatever the completion order.
C2_ResultsInInputOrder ==
  (concurrency >= 1 /\ Failing(tasks) = {} /\ outcome.state = "fulfilled") =>
    /\ DOMAIN ReturnedArray = 0..(N - 1)
    /\ \A i \in 0..(N - 1) : ReturnedArray[i] = tasks[i].value

C2_Witness ==
  /\ concurrency >= 2
  /\ N >= 3
  /\ Failing(tasks) = {}
  /\ outcome.state = "fulfilled"
  /\ \E j, k \in 1..Len(settleOrder) : j < k /\ settleOrder[j] > settleOrder[k]

\* C3: in fail-fast mode (concurrency >= 1), once the run has an outcome and
\* some invoked task fails, the outcome is a rejection with a ConcurrencyError
\* whose index is that of the first task to complete with failure; no array
\* is returned.
C3_FailFastFirstFailure ==
  (/\ stopOnError
   /\ concurrency >= 1
   /\ outcome.state # "pending"
   /\ StartedIndexes \cap Failing(tasks) # {}) =>
    /\ outcome.state = "rejected"
    /\ DOMAIN outcome = {"state", "reason"}
    /\ IsConcurrencyError(outcome.reason)
    /\ outcome.reason.index = FirstFailedSettled

C3_Witness ==
  /\ stopOnError
  /\ outcome.state = "rejected"
  /\ \E i \in FailedSettles : settleOrder[i] < outcome.reason.index

\* C4: in collect-all mode the run never rejects: no worker promise, nor
\* Promise.all, nor the run is ever rejected, and the outcome is a normal
\* return of a record {data, errorIndexes}.
C4_CollectAllNeverRejects ==
  ~stopOnError =>
    /\ \A w \in DOMAIN workers : workers[w].status # "rejected"
    /\ all.state # "rejected"
    /\ outcome.state # "rejected"
    /\ outcome.state = "fulfilled" =>
         DOMAIN outcome.value = {"data", "errorIndexes"}

C4_Witness ==
  /\ ~stopOnError
  /\ outcome.state = "fulfilled"
  /\ Cardinality(Failing(tasks)) >= 2

\* C5: in collect-all mode (concurrency >= 1) with k failing tasks, the
\* returned errorIndexes has k entries, no duplicates; i is listed iff data[i]
\* is a ConcurrencyError, whose index is then i; every other data[i] is the
\* success value of task i.
C5_ErrorIndexesMatchData ==
  (~stopOnError /\ concurrency >= 1 /\ outcome.state = "fulfilled") =>
    LET data == outcome.value.data
        idx == outcome.value.errorIndexes
    IN /\ Len(idx) = Cardinality(Failing(tasks))
       /\ Cardinality(Range(idx)) = Len(idx)
       /\ DOMAIN data = 0..(N - 1)
       /\ \A i \in 0..(N - 1) :
            /\ i \in Range(idx) <=> IsConcurrencyError(data[i])
            /\ IsConcurrencyError(data[i]) => data[i].index = i
            /\ ~IsConcurrencyError(data[i]) => data[i] = tasks[i].value

C5_Witness ==
  /\ ~stopOnError
  /\ concurrency >= 2
  /\ outcome.state = "fulfilled"
  /\ Cardinality(Failing(tasks)) >= 2
  /\ Cardinality(Failing(tasks)) < N
  /\ 0 \notin Failing(tasks)

\* C6: in collect-all mode the returned errorIndexes is in strictly ascending
\* numeric order, for every task count (also beyond 10 tasks) and every
\* completion order of the failing tasks.
C6_ErrorIndexesAscending ==
  (~stopOnError /\ outcome.state = "fulfilled") =>
    LET idx == outcome.value.errorIndexes IN
    \A j, k \in 1..Len(idx) : j < k => idx[j] < idx[k]

\* C7: in fail-fast mode, once the error flag is set no worker removes an item
\* from the queue or invokes a task; tasks in flight may still settle.
C7_NoClaimAfterFlag ==
  [][(stopOnError /\ errorOccurred) =>
       (queue' = queue /\ started' = started /\ errorOccurred')]_vars

C7_Witness ==
  /\ stopOnError
  /\ errorOccurred
  /\ Len(queue) > 0
  /\ \E w \in DOMAIN workers : workers[w] = Fulfilled
  /\ \E k \in 1..Len(settleOrder) :
       /\ settleOrder[k] \notin Failing(tasks)
       /\ results[settleOrder[k]] # Empty
       /\ \E j \in FailedSettles : j < k

\* C8 as stated: in both modes, when the run has an outcome every launched
\* worker has terminated and no task is in flight.
C8_OutcomeAfterAllWorkers ==
  outcome.state # "pending" =>
    /\ \A w \in DOMAIN workers : workers[w].status \in {"fulfilled", "rejected"}
    /\ InFlightCount = 0

\* C8 amended: when the run resolves (in either mode) every launched worker
\* has terminated and no task is in flight; hence in collect-all mode, which
\* never rejects, any outcome comes after all workers.
C8_ResolutionAfterAllWorkers ==
  (outcome.state = "fulfilled" \/ (~stopOnError /\ outcome.state # "pending")) =>
    /\ \A w \in DOMAIN workers : workers[w].status = "fulfilled"
    /\ InFlightCount = 0
    /\ jobs = <<>>

C8_Witness ==
  /\ outcome.state = "fulfilled"
  /\ concurrency >= 2
  /\ Len(started) > concurrency
  /\ \E j, k \in 1..Len(settleOrder) : j < k /\ settleOrder[j] > settleOrder[k]

\* C9: each index is claimed by at most one worker and its task invoked at
\* most once; no two workers ever hold the same index.
C9_ClaimedAtMostOnce ==
  /\ \A i \in 0..(N - 1) : Invocations(i) <= 1
  /\ \A v, w \in DOMAIN workers :
       (v # w /\ workers[v].status = "awaiting" /\ workers[w].status = "awaiting")
         => workers[v].item.index # workers[w].item.index

C9_Witness ==
  /\ N >= 3
  /\ Len(started) = N
  /\ Cardinality({ started[k][1] : k \in 1..Len(started) }) >= 2
  /\ Cardinality(InFlight) >= 2

\* C10: with concurrency >= 1 and no fail-fast abort (collect-all, or
\* fail-fast with every task succeeding), when the run returns every index
\* 0..n-1 has had its task invoked exactly once.
C10_NoIndexSkipped ==
  (/\ concurrency >= 1
   /\ outcome.state = "fulfilled"
   /\ (~stopOnError \/ Failing(tasks) = {})) =>
    \A i \in 0..(N - 1) : Invocations(i) = 1

C10_Witness ==
  /\ concurrency >= 1
  /\ concurrency < N
  /\ ~stopOnError
  /\ Failing(tasks) # {}
  /\ outcome.state = "fulfilled"
  /\ Len(started) = N

\* C11: for an empty task list and any concurrency the run invokes no task,
\* never rejects, has nothing to wait for, and returns an empty array in
\* fail-fast mode and {data: [], errorIndexes: []} in collect-all mode.
C11_EmptyTaskList ==
  N = 0 =>
    /\ started = <<>>
    /\ outcome.state # "rejected"
    /\ pc # "launch" => all.state = "fulfilled"
    /\ outcome.state = "fulfilled" =>
         IF stopOnError
         THEN DOMAIN outcome.value = {}
         ELSE /\ DOMAIN outcome.value = {"data", "errorIndexes"}
              /\ DOMAIN outcome.value.data = {}
              /\ outcome.value.errorIndexes = <<>>

C11_Witness ==
  /\ N = 0
  /\ concurrency >= 2
  /\ ~stopOnError
  /\ launched = concurrency
  /\ outcome.state = "fulfilled"

\* continuations that have run: settled task promises a worker has processed
Processed == Len(settleOrder) - Len(jobs)

\* C12: with concurrency = 1, in both modes, tasks are started in input order
\* 0, 1, 2, ... and task i+1 is invoked only after task i has settled.
C12_SequentialWhenOne ==
  concurrency = 1 =>
    /\ \A k \in 1..Len(started) : started[k][2] = k - 1
    /\ \A k \in 1..Len(settleOrder) : settleOrder[k] = k - 1
    /\ Len(started) <= Len(settleOrder) + 1

C12_Witness ==
  /\ concurrency = 1
  /\ N >= 3
  /\ Len(started) = N
  /\ Len(settleOrder) = N - 1

\* C13: with concurrency >= n, every one of the n tasks has been invoked
\* before a worker processes the completion of any task; so in fail-fast mode
\* a task that fails at once keeps no task from being started.
C13_AllStartBeforeAnyCompletion ==
  (concurrency >= N /\ (Processed > 0 \/ errorOccurred \/ pc # "launch")) =>
    \A i \in 0..(N - 1) : Invocations(i) = 1

C13_Witness ==
  /\ N >= 3
  /\ concurrency >= N
  /\ stopOnError
  /\ errorOccurred
  /\ 0 \in Failing(tasks)
  /\ settleOrder[1] = 0
  /\ Len(started) = N

\* C14: with concurrency <= 0 and n > 0 tasks the run is invalid: it fails or
\* behaves as with concurrency 1; it never returns normally with no task
\* invoked and result slots left unwritten.
C14_NonPositiveConcurrencyRejected ==
  (concurrency <= 0 /\ N > 0 /\ outcome.state = "fulfilled") =>
    /\ started # <<>>
    /\ \A i \in 0..(N - 1) : ReturnedArray[i] # Empty

\* every ConcurrencyError the run has produced so far: stored in a result
\* slot, thrown by a worker, or delivered as the run's rejection
ProducedErrors ==
  { results[i] : i \in { j \in DOMAIN results : IsConcurrencyError(results[j]) } }
  \cup { workers[w].reason : w \in { v \in DOMAIN workers : workers[v].status = "rejected" } }
  \cup (IF outcome.state = "rejected" THEN {outcome.reason} ELSE {})

\* the part of a ConcurrencyError's message that comes from its cause's message
CauseText(ce) ==
  IF Len(ce.message) >= 2 THEN SubSeq(ce.message, 3, Len(ce.message)) ELSE <<>>

\* C15: when a task throws a non-Error (a string, the empty string, null,
\* undefined), in both modes the ConcurrencyError's cause has a non-empty
\* message derived from that value, and is not the raw value.
C15_NonErrorNormalized ==
  \A ce \in ProducedErrors :
    LET thrown == tasks[ce.index].value IN
    thrown.type # "Error" =>
      /\ ce.message # thrown
      /\ CauseText(ce) # <<>>
      /\ CauseText(ce) = (IF thrown.type = "string" THEN thrown.value
                          ELSE <<"Unknown error">>)

\* C16: when a task fails with an Error e, the ConcurrencyError produced for
\* it has e's message as its message and exposes e as originalError.
C16_ErrorMessageAndOriginal ==
  \A ce \in ProducedErrors :
    LET thrown == tasks[ce.index].value IN
    thrown.type = "Error" =>
      /\ ce.message = thrown.message
      /\ "originalError" \in DOMAIN ce
      /\ ce.originalError = thrown

OptionOmitted(field) == field \notin DOMAIN OptionsOrDefault(options)

\* C17: when the options argument or one of its fields is omitted the run
\* behaves as with concurrency = 5 and stopOnError = true: at most 5 tasks are
\* in flight and the first task failure rejects the run.
C17_DefaultOptions ==
  /\ OptionOmitted("concurrency") =>
       /\ concurrency = 5
       /\ Cardinality(DOMAIN workers) = 5
       /\ InFlightCount <= 5
  /\ OptionOmitted("stopOnError") =>
       /\ stopOnError = TRUE
       /\ (outcome.state # "pending" /\ StartedIndexes \cap Failing(tasks) # {}) =>
            /\ outcome.state = "rejected"
            /\ outcome.reason.index = FirstFailedSettled

C17_Witness ==
  /\ options = Undefined
  /\ InFlightCount = 5
  /\ Len(started) > 5
  /\ Failing(tasks) # {}

\* C18: in collect-all mode with concurrency >= 1, if every invoked task
\* eventually settles the run eventually returns, and it has an outcome only
\* once the queue is exhausted.
C18_CollectAllTerminates ==
  /\ (~stopOnError /\ concurrency >= 1) ~> (outcome.state = "fulfilled" /\ queue = <<>>)
  /\ []((~stopOnError /\ concurrency >= 1 /\ outcome.state # "pending") => queue = <<>>)

C18_Witness ==
  /\ ~stopOnError
  /\ concurrency >= 1
  /\ concurrency < N
  /\ Failing(tasks) # {}
  /\ outcome.state = "fulfilled"
  /\ queue = <<>>
  /\ Len(settleOrder) = N

\* C19 as stated: for n tasks and concurrency c >= 1 the run launches exactly
\* min(c, n) workers, none beyond the number of tasks.
C19_LaunchesMinWorkers ==
  (concurrency >= 1 /\ pc # "launch") => launched = Min(concurrency, N)

\* C19 as amended: for n tasks and concurrency c >= 1 the run launches exactly
\* c workers; only the first min(c, n) of them ever claim a work item, and each
\* worker launched beyond the n-th returns at once without invoking a task.
C19_LaunchesConcurrencyWorkers ==
  concurrency >= 1 =>
    /\ launched <= concurrency
    /\ pc # "launch" => launched = concurrency
    /\ StartedWorkers \subseteq 1..Min(concurrency, N)
    /\ \A w \in 1..launched : w > N => workers[w] = Fulfilled

C19_Witness ==
  /\ N >= 1
  /\ concurrency > N
  /\ pc # "launch"
  /\ launched = concurrency
  /\ StartedWorkers = 1..N
  /\ workers[concurrency] = Fulfilled

\* C20: result slot i is written at most once, and only by the worker that
\* claimed work item i: a step changes a slot only if the slot was still empty
\* and the worker whose continuation runs claimed that index and holds it.
C20_SlotWrittenOnceByClaimer ==
  [][\A i \in DOMAIN results :
       results'[i] # results[i] =>
         /\ results[i] = Empty
         /\ jobs # <<>>
         /\ <<Head(jobs), i>> \in Range(started)
         /\ workers[Head(jobs)].item.index = i
         /\ Invocations(i) = 1]_vars

C20_Witness ==
  /\ N >= 3
  /\ results[0] # Empty
  /\ results[1] # Empty
  /\ results[2] # Empty
  /\ \E w1, w2 \in DOMAIN workers :
       /\ w1 # w2
       /\ <<w1, 0>> \in Range(started)
       /\ <<w2, 1>> \in Range(started)
       /\ <<w2, 2>> \in Range(started)
  /\ settleOrder[1] = 1

\* position of index i in the order of completion (0 when not yet settled)
SettledAt(i) ==
  IF i \in Range(settleOrder)
  THEN CHOOSE k \in 1..Len(settleOrder) : settleOrder[k] = i
  ELSE 0

\* C21: with stopOnError = true, the outcome of a failed run is exactly the
\* ConcurrencyError of the first failure, carries no partial data, and neither
\* the rejection of Promise.all nor the outcome changes when tasks that were
\* still in flight fail or succeed afterwards.
C21_LaterFailuresSwallowed ==
  /\ [](stopOnError /\ outcome.state = "rejected" =>
          /\ DOMAIN outcome = {"state", "reason"}
          /\ IsConcurrencyError(outcome.reason)
          /\ outcome.reason.index = FirstFailedSettled
          /\ outcome.reason = all.reason)
  /\ [][stopOnError =>
          /\ all.state = "rejected" => all' = all
          /\ outcome.state # "pending" => outcome' = outcome]_vars

C21_Witness ==
  /\ stopOnError
  /\ outcome.state = "rejected"
  /\ \E w \in DOMAIN workers :
       /\ workers[w].status = "rejected"
       /\ workers[w].reason.index # outcome.reason.index
  /\ \E i \in DOMAIN results :
       /\ results[i] # Empty
       /\ SettledAt(i) > SettledAt(outcome.reason.index)

\* C22: with stopOnError = true and concurrency >= 2 the reported index is that
\* of the failing task that completed first, not the lowest failing index:
\* every other failing task that was started either had not settled or
\* settled later; a run where tasks i < j both fail and index j is reported is
\* reachable (C22_Witness).
C22_ReportedIndexFollowsCompletion ==
  (stopOnError /\ concurrency >= 2 /\ outcome.state = "rejected") =>
    LET j == outcome.reason.index IN
    /\ j \in Failing(tasks) \cap StartedIndexes
    /\ \A i \in (Failing(tasks) \cap StartedIndexes) \ {j} :
         SettledAt(i) = 0 \/ SettledAt(i) > SettledAt(j)

C22_Witness ==
  /\ stopOnError
  /\ concurrency >= 2
  /\ outcome.state = "rejected"
  /\ \E i \in Failing(tasks) :
       /\ i < outcome.reason.index
       /\ SettledAt(i) > SettledAt(outcome.reason.index)
       /\ \E k \in 1..Len(started) :
            /\ started[k][2] = i
            /\ workers[started[k][1]].status = "rejected"
            /\ workers[started[k][1]].reason.index = i

\* C23: for concurrency >= 1, in either mode, tasks are invoked in strictly
\* ascending index order: the k-th invocation is of index k-1, so the started
\* tasks are the prefix 0..k-1 and the unclaimed queue is exactly the items
\* k..n-1 in order.
C23_StartedPrefixQueueSuffix ==
  concurrency >= 1 =>
    /\ \A k \in 1..Len(started) : started[k][2] = k - 1
    /\ StartedIndexes = 0..(Len(started) - 1)
    /\ queue = MapQueue(tasks, Len(started))

C23_Witness ==
  /\ concurrency >= 2
  /\ Len(started) >= 3
  /\ Len(queue) >= 1
  /\ Len(settleOrder) >= 2
  /\ settleOrder[1] > settleOrder[2]

\* the lowest index among the tasks that fail when invoked (-1 when none does)
LowestFailing ==
  IF Failing(tasks) = {} THEN -1
  ELSE CHOOSE i \in Failing(tasks) : \A j \in Failing(tasks) : i <= j

\* C24: with stopOnError = true and concurrency = 1, a run with a failing task
\* rejects with the lowest index among all tasks that would fail, and no task
\* with a higher index than that is ever invoked.
C24_SequentialFailFastLowestIndex ==
  (stopOnError /\ concurrency = 1 /\ Failing(tasks) # {}) =>
    /\ \A i \in StartedIndexes : i <= LowestFailing
    /\ outcome.state # "fulfilled"
    /\ outcome.state = "rejected" =>
         /\ IsConcurrencyError(outcome.reason)
         /\ outcome.reason.index = LowestFailing
         /\ StartedIndexes = 0..LowestFailing

C24_Witness ==
  /\ stopOnError
  /\ concurrency = 1
  /\ Cardinality(Failing(tasks)) >= 2
  /\ LowestFailing >= 1
  /\ N > LowestFailing + 1
  /\ outcome.state = "rejected"
  /\ outcome.reason.index = LowestFailing

\* workers that hold a claimed item: awaiting its task, settled or not
AwaitingWorkers == { w \in DOMAIN workers : workers[w].status = "awaiting" }

\* C25: the pool is work-conserving: with 1 <= concurrency <= n, once the
\* workers are launched, while unclaimed items remain and fail-fast has not
\* tripped, no worker is idle or has exited; and when every worker is
\* suspended on a pending task (no continuation is waiting to run), exactly
\* concurrency tasks are in flight.
C25_WorkConserving ==
  (/\ 1 <= concurrency
   /\ concurrency <= N
   /\ pc # "launch"
   /\ queue # <<>>
   /\ ~(stopOnError /\ errorOccurred)) =>
    /\ AwaitingWorkers = 1..concurrency
    /\ jobs = <<>> =>
         /\ InFlight = 1..concurrency
         /\ InFlightCount = concurrency

C25_Witness ==
  /\ concurrency >= 2
  /\ concurrency <= N
  /\ pc # "launch"
  /\ queue # <<>>
  /\ jobs = <<>>
  /\ ~stopOnError
  /\ errorIndexes # <<>>
  /\ Len(started) > concurrency
  /\ InFlightCount = concurrency

\* C26: a run never mutates the caller's tasks array: no step changes it, the
\* items still in the work queue are the tasks at their indices, and the
\* results array has the length of the input, however the run ends.
C26_TasksNotMutated ==
  /\ [][tasks' = tasks]_vars
  /\ [](/\ DOMAIN results = DOMAIN tasks
        /\ \A k \in 1..Len(queue) : queue[k].task = tasks[queue[k].index]
        /\ \A k \in 1..Len(started) : started[k][2] \in DOMAIN tasks)

C26_Witness ==
  /\ N >= 3
  /\ pc = "done"
  /\ queue = <<>>
  /\ Len(started) = N
  /\ ~stopOnError
  /\ Failing(tasks) # {}

\* C27: the loop test, queue.shift() and the task invocation run in one
\* synchronous step, so whenever the loop test holds shift returns the next
\* item, never undefined: every step that shifts the queue invokes a task,
\* and a worker returns only through a failed loop test, never through
\* `if (!item) return`.
C27_ShiftNeverUndefined ==
  /\ [](LoopCond(queue, stopOnError, errorOccurred) =>
          /\ ShiftItem(queue) # Undefined
          /\ ShiftItem(queue).index = Len(started)
          /\ ShiftItem(queue).task = tasks[Len(started)])
  /\ [][/\ queue' # queue => Len(started') = Len(started) + 1
        /\ \A w \in DOMAIN workers :
             (workers[w].status # "fulfilled" /\ workers'[w].status = "fulfilled") =>
               /\ ~LoopCond(queue, stopOnError, errorOccurred)
               /\ queue' = queue
               /\ started' = started]_vars

C27_Witness ==
  /\ concurrency >= 2
  /\ N >= 3
  /\ queue = <<>>
  /\ Len(started) = N
  /\ Len(jobs) >= 2
  /\ \E w \in StartedWorkers : workers[w].status = "fulfilled"

====
